---- MODULE Spec2Model ----
(***************************************************************************)
(* A model of the Bluesky thread publisher (bluesky_publisher.py) and of   *)
(* the automation that drives it (bluesky_automation.py).                  *)
(*                                                                         *)
(* Python values are modelled as follows.                                  *)
(*   - None is the record [tag |-> "None"].                                *)
(*   - A JSON object / dict is a record; "key in dict" is key \in DOMAIN.  *)
(*   - A list is a sequence; the Optional[List] returned by post_thread is *)
(*     None or [list |-> <sequence>], so that None and [] stay distinct.   *)
(*   - An image path is None or [path |-> <string>].                       *)
(*   - A record key that the code leaves out (reply, embed) holds None.    *)
(***************************************************************************)
EXTENDS Integers, Sequences, FiniteSets, TLC

\* ------------------------------------------------------------------ bounds
MaxPosts == 3
MaxCalls == 2
MaxThreads == 2

\* ------------------------------------------------------- program constants
MinThreadPosts == 3

\* ------------------------------------------------------------------ values
None == [tag |-> "None"]

\* No value recorded yet.
Unset == [tag |-> "unset"]

Texts(n) == [i \in 1..n |-> i]

Tokens == {"jwt1", "jwt2"}

Dids == {"did:plc:a"}

ImagePath(p) == [path |-> p]

ImagePaths == {None, ImagePath(""), ImagePath("img.png")}

\* Python truthiness of an Optional[str] path: None and "" are falsy.
PathTruthy(p) == p # None /\ p.path # ""

\* Python truthiness of Optional[List]: None and [] are falsy.
ListTruthy(v) == v # None /\ Len(v.list) > 0

RetList(s) == [list |-> s]

\* --------------------------------------------------------- the environment
\* What the session-creation endpoint can answer.
AuthResponses ==
    {[kind |-> "exception"]}
    \cup {[kind |-> "status", status |-> s, body |-> [message |-> "error"]] : s \in {401, 500}}
    \cup {[kind |-> "status", status |-> 200, body |-> [did |-> d, accessJwt |-> t]]
            : d \in Dids, t \in Tokens}
    \cup {[kind |-> "status", status |-> 200, body |-> [accessJwt |-> t]] : t \in Tokens}
    \cup {[kind |-> "status", status |-> 200, body |-> [did |-> d]] : d \in Dids}

\* What the record-creation endpoint can answer to the request for post i of
\* post_thread call c: a 200 carries the uri and cid of a record of its own.
RecordResponses(c, i) ==
    {[kind |-> "exception"]}
    \cup {[kind |-> "status", status |-> s, body |-> [message |-> "error"]] : s \in {400, 500}}
    \cup {[kind |-> "status", status |-> 200, body |-> b] :
            b \in {[uri |-> <<"at", c, i>>, cid |-> <<"cid", c, i>>],
                   [uri |-> <<"at", c, i>>],
                   [cid |-> <<"cid", c, i>>],
                   [message |-> "no reference"]}}

\* What the blob-upload endpoint can answer.
BlobResponses ==
    {[kind |-> "exception"]}
    \cup {[kind |-> "status", status |-> s, body |-> [message |-> "error"]] : s \in {400, 500}}
    \cup {[kind |-> "status", status |-> 200, body |-> b] :
            b \in {[blob |-> [ref |-> "bafkblob", mimeType |-> "image/png"]],
                   [message |-> "no blob"]}}

\* The local file behind an image path when the code looks at it.
FileStates == {"missing", "unreadable", "ok"}

\* ------------------------------------------------------------------- state
VARIABLES
    mode,        \* "api": BlueskyPublisher used directly; "auto": through main
    session,     \* BlueskyPublisher.session
    did,         \* BlueskyPublisher.did
    ctorAuth,    \* what authenticate() returned inside __init__: "none", "ok", "failed"
    issued,      \* the body of the latest status-200 answer to createSession, or None
    lastAuth,    \* the latest authenticate() call: value returned, whether answered 200
    \* the frame of the running post_thread call
    pc,          \* "idle", "entry", "upload", "loop", "sleep", "return", "done", "raised"
    posts, image_path, posted, reply_ref, image_blob, idx, retval,
    exitPath,    \* which return statement ended post_thread
    trace,       \* what the call has done so far: upload, create and sleep events
    retRejected, \* the value last returned for an empty list of posts, if any
    retNothing,  \* the value last returned when no post was created, if any
    ncalls,      \* direct post_thread calls made
    \* BlueskyAutomation
    apc,         \* "new", "ready", "gen", "posting", "exit", "crashed"
    schedule,    \* today's entry of the loaded schedule, or None
    threads, tix, image, results, genCalls,
    generated,   \* generate_and_post: what generate_thread returned for the slot
    \* two post_thread calls in progress on one publisher
    frames,      \* the locals of each call and the create_post calls it has made
    \* upload_image's choice of Content-Type
    upath,       \* image_path, as a sequence of characters
    ctype,       \* the Content-Type header built for it, "" before that
    \* BlueskyThreadGenerator
    provider_list, current_index,
    gpc,         \* "idle" between generate_thread calls, "loop" inside one
    attempts, retry_count,
    gret,        \* what the last generate_thread call returned
    failedAttempts, \* attempts that did not give a usable thread, over all calls
    gcalls,      \* generate_thread calls made
    tried,       \* the providers the running or last call has used, in order
    \* one attempt of generate_thread, from the provider's text to post_thread
    gcontent,    \* the text a provider returned, as its segments, or None
    gposts,      \* what the attempt makes generate_thread return, if anything
    handed,      \* the posts generate_and_post passes to post_thread
    \* setup_bluesky.py, then BlueskyAutomation on the file it wrote
    sargs,       \* the arguments of create_schedule
    today,       \* the day BlueskyAutomation runs on
    sfile,       \* BLUESKY_SCHEDULE.json, once written
    sloaded,     \* BlueskyAutomation.schedule, once loaded
    spreview,    \* what preview_schedule did, once called
    stoday       \* what get_today_threads did, once called

pubVars == <<session, did, ctorAuth, issued, lastAuth>>
frameVars == <<pc, posts, image_path, posted, reply_ref, image_blob, idx, retval, exitPath, trace>>
autoVars == <<apc, schedule, threads, tix, image, results, genCalls, generated>>
mimeVars == <<upath, ctype>>
genVars == <<provider_list, current_index, gpc, attempts, retry_count, gret, failedAttempts, gcalls,
             tried>>
parseVars == <<gcontent, gposts, handed>>
setupVars == <<sargs, today, sfile, sloaded, spreview, stoday>>
sideVars == <<frames, mimeVars, genVars, parseVars, setupVars>>
vars == <<mode, pubVars, frameVars, retRejected, retNothing, ncalls, autoVars, sideVars>>

\* Whether the endpoint answered with status 200.
Is200(resp) == resp.kind = "status" /\ resp.status = 200

\* The session data the server has issued last, after one more answer.
IssuedBy(prev, resp) == IF Is200(resp) THEN resp.body ELSE prev

\* ------------------------------------------------- BlueskyPublisher (pure)
\* Faulty variant: a session already held is not replaced.
Authenticate_KeepsSession(sess, d, resp) ==
    IF resp.kind = "exception"
    THEN [session |-> sess, did |-> d, ok |-> FALSE]
    ELSE IF resp.status = 200
         THEN IF "did" \in DOMAIN resp.body
              THEN [session |-> IF sess = None THEN resp.body ELSE sess,
                    did |-> [did |-> resp.body.did], ok |-> TRUE]
              ELSE [session |-> IF sess = None THEN resp.body ELSE sess, did |-> d, ok |-> FALSE]
         ELSE [session |-> sess, did |-> d, ok |-> FALSE]

\* authenticate(): the new session and did and the value returned.
Authenticate(sess, d, resp) ==
    IF resp.kind = "exception"
    THEN [session |-> sess, did |-> d, ok |-> FALSE]
    ELSE IF resp.status = 200
         THEN IF "did" \in DOMAIN resp.body
              THEN [session |-> resp.body, did |-> [did |-> resp.body.did], ok |-> TRUE]
              \* data['did'] raises KeyError after self.session = data
              ELSE [session |-> resp.body, did |-> d, ok |-> FALSE]
         ELSE [session |-> sess, did |-> d, ok |-> FALSE]

\* self.session["accessJwt"]: the token, or the exception the lookup raises.
AccessJwt(sess) ==
    IF sess = None THEN [raised |-> "TypeError"]
    ELSE IF "accessJwt" \notin DOMAIN sess THEN [raised |-> "KeyError"]
    ELSE [token |-> sess.accessJwt]

\* _get_headers(): the headers, or the exception raised while building them.
GetHeaders(sess) ==
    LET t == AccessJwt(sess)
    IN  IF "raised" \in DOMAIN t THEN t
        ELSE [Authorization |-> t.token, ContentType |-> "application/json"]

\* The post record create_post builds.
BuildRecord(text, reply_to, blob) ==
    [text  |-> text,
     reply |-> IF reply_to # None THEN reply_to ELSE None,
     embed |-> IF blob # None
               THEN [images |-> <<[alt |-> "", image |-> blob]>>]
               ELSE None]

\* The try block of create_post: the value returned or the exception raised,
\* and the request if one went out.
CreatePostTry(sess, repo, record, resp) ==
    LET h == GetHeaders(sess)
        req == [op |-> "createRecord", token |-> h.Authorization, repo |-> repo,
                record |-> record]
    IN  IF "raised" \in DOMAIN h THEN [raised |-> h.raised, sent |-> None]
        ELSE IF resp.kind = "exception" THEN [raised |-> "RequestException", sent |-> req]
        ELSE IF resp.status = 200
             THEN IF {"uri", "cid"} \subseteq DOMAIN resp.body
                  THEN [ret |-> [uri |-> resp.body.uri, cid |-> resp.body.cid], sent |-> req]
                  ELSE [raised |-> "KeyError", sent |-> req]
             ELSE [ret |-> None, sent |-> req]

\* Faulty variant: the except clause catches transport errors only.
CreatePostExcept_TransportOnly(out) ==
    IF "raised" \in DOMAIN out /\ out.raised = "RequestException"
    THEN [ret |-> None, sent |-> out.sent] ELSE out

\* The except clause of create_post: every Exception becomes None.
CreatePostExcept(out) ==
    IF "raised" \in DOMAIN out THEN [ret |-> None, sent |-> out.sent] ELSE out

CreatePost(sess, repo, text, reply_to, blob, resp) ==
    CreatePostExcept(CreatePostTry(sess, repo, BuildRecord(text, reply_to, blob), resp))

\* Faulty variant: the whole response body is returned in place of its blob.
UploadTry_WholeBody(sess, file, resp) ==
    LET t == AccessJwt(sess)
        req == [op |-> "uploadBlob", token |-> t.token]
    IN  IF file = "unreadable" THEN [raised |-> "OSError", sent |-> None]
        ELSE IF "raised" \in DOMAIN t THEN [raised |-> t.raised, sent |-> None]
        ELSE IF resp.kind = "exception" THEN [raised |-> "RequestException", sent |-> req]
        ELSE IF resp.status = 200
             THEN [ret |-> resp.body, sent |-> req]
             ELSE [ret |-> None, sent |-> req]

\* The try block of upload_image, entered once the file is known to exist.
UploadTry(sess, file, resp) ==
    LET t == AccessJwt(sess)
        req == [op |-> "uploadBlob", token |-> t.token]
    IN  IF file = "unreadable" THEN [raised |-> "OSError", sent |-> None]
        ELSE IF "raised" \in DOMAIN t THEN [raised |-> t.raised, sent |-> None]
        ELSE IF resp.kind = "exception" THEN [raised |-> "RequestException", sent |-> req]
        ELSE IF resp.status = 200
             THEN IF "blob" \in DOMAIN resp.body
                  THEN [ret |-> resp.body.blob, sent |-> req]
                  ELSE [raised |-> "KeyError", sent |-> req]
             ELSE [ret |-> None, sent |-> req]

\* The except clause of upload_image.
UploadExcept(out) ==
    IF "raised" \in DOMAIN out THEN [ret |-> None, sent |-> out.sent] ELSE out

UploadImage(sess, file, resp) ==
    IF file = "missing" THEN [ret |-> None, sent |-> None]
    ELSE UploadExcept(UploadTry(sess, file, resp))

\* Why a call gave no value: the exception its try block raised, "status"
\* for a status other than 200, "none" when it gave a value.
Cause(out) ==
    IF "raised" \in DOMAIN out THEN out.raised
    ELSE IF out.ret = None THEN "status" ELSE "none"

UploadCause(sess, file, resp) ==
    IF file = "missing" THEN "missing" ELSE Cause(UploadTry(sess, file, resp))

\* Faulty variant: the emptiness check is missing.
RejectsPosts_Never(ps) == FALSE

\* post_thread, line 141: the guard that rejects the call.
RejectsPosts(ps) == Len(ps) < 1

\* Faulty variant: upload_image is called whether or not a path was given.
WantsUpload_Always(path) == TRUE

\* post_thread, lines 152-153: whether upload_image is called.
WantsUpload(path) == PathTruthy(path)

\* Faulty variant: a failed upload ends the thread.
AfterUpload_AbortOnFailure(blob) == IF blob = None THEN "return" ELSE "loop"

\* post_thread, lines 153-155: after upload_image returned, whatever it
\* returned, the loop over the posts starts.
AfterUpload(blob) == "loop"

\* Faulty variant: the blob goes to every post.
FirstPostImage_Every(i, blob) == blob

\* post_thread, line 160: the blob handed to create_post for post idx (1-based).
FirstPostImage(i, blob) == IF i = 1 THEN blob ELSE None

\* Faulty variant: the root follows the latest post.
NextReplyRef_RootIsLatest(allPosted, result) ==
    [root   |-> [uri |-> result.uri, cid |-> result.cid],
     parent |-> [uri |-> result.uri, cid |-> result.cid]]

\* post_thread, lines 169-178: the reply reference for the next post.
NextReplyRef(allPosted, result) ==
    [root   |-> [uri |-> allPosted[1].uri, cid |-> allPosted[1].cid],
     parent |-> [uri |-> result.uri, cid |-> result.cid]]

\* Faulty variant: a failed post is skipped and the loop goes on.
AfterPost_Continue(result, i, n) == IF i < n THEN "sleep" ELSE "return"

\* Faulty variant: a failed post is tried again.
AfterPost_Retry(result, i, n) ==
    IF result # None
    THEN IF i < n THEN "sleep" ELSE "return"
    ELSE "loop"

\* Faulty variant: the delay follows every created post, the last one too.
AfterPost_DelayAfterLast(result, i, n) == IF result # None THEN "sleep" ELSE "return"

\* post_thread, lines 164-185: where the loop goes after create_post returned.
AfterPost(result, i, n) ==
    IF result # None
    THEN IF i < n THEN "sleep" ELSE "return"
    ELSE "return"

\* post_thread, lines 187-195: the path taken and the value returned.
ReturnPath(allPosted, ps) ==
    IF Len(allPosted) = Len(ps) THEN "complete" ELSE "partial"

\* Faulty variant: the list is returned even when it is empty.
ReturnValue_Posted(allPosted, ps) == RetList(allPosted)

ReturnValue(allPosted, ps) ==
    IF Len(allPosted) = Len(ps) THEN RetList(allPosted)
    ELSE IF Len(allPosted) > 0 THEN RetList(allPosted) ELSE None

\* A publisher that forgets its session when a request brings nothing back.
SessionAfterRequest_DropOnFailure(sess, ret) == IF ret = None THEN None ELSE sess

\* self.session after upload_image or create_post returned ret: neither
\* method assigns to it.
SessionAfterRequest(sess, ret) == sess

\* The body of the 200 answer an upload request received, None when no
\* request went out or the answer was not a 200.
Answered(out, resp) == IF out.sent # None /\ Is200(resp) THEN resp.body ELSE None

\* ------------------------------------------------------------ the schedule
ThreadConfigs == {[topic |-> "t", image |-> i] : i \in {None, ImagePath("img.png")}}

ThreadLists == UNION {[1..n -> ThreadConfigs] : n \in 0..MaxThreads}

\* Today's entry of the schedule file: none for today's date, or the list of
\* thread configurations stored under the key the file uses.
Schedules == {None} \cup {[key |-> k, list |-> ts] : k \in {"posts", "threads"}, ts \in ThreadLists}

\* What generate_thread can return: None or at least MinThreadPosts texts.
GenResults == {None} \cup {RetList(Texts(n)) : n \in MinThreadPosts..MaxPosts}

\* -------------------------------------------------------------------- Init
\* No post_thread call is in progress and run_all_today has not started.
NoCall ==
    /\ pc = "idle" /\ posts = <<>> /\ image_path = None /\ posted = <<>>
    /\ reply_ref = None /\ image_blob = None /\ idx = 0 /\ retval = None
    /\ exitPath = "none" /\ trace = <<>>
    /\ retRejected = Unset /\ retNothing = Unset
    /\ ncalls = 0
    /\ schedule = None /\ threads = <<>> /\ tix = 0
    /\ image = None /\ results = <<>> /\ genCalls = 0 /\ generated = Unset

\* No publisher has been constructed.
NoPublisher ==
    /\ session = None /\ did = None /\ ctorAuth = "none"
    /\ issued = None /\ lastAuth = None
    /\ apc = "new"

\* No Content-Type is being chosen.
NoMime == upath = <<>> /\ ctype = ""

\* No provider has returned a text.
NoParse == gcontent = None /\ gposts = Unset /\ handed = Unset

\* setup_bluesky.py has not been run.
NoSetup ==
    /\ sargs = Unset /\ today = 0 /\ sfile = Unset /\ sloaded = Unset
    /\ spreview = Unset /\ stoday = Unset

\* No generator has been constructed.
NoGenerator ==
    /\ provider_list = <<>> /\ current_index = 0 /\ gpc = "idle" /\ attempts = 0
    /\ retry_count = 0 /\ gret = Unset /\ failedAttempts = 0 /\ gcalls = 0 /\ tried = <<>>

ClearFrame ==
    /\ pc' = "idle"
    /\ posts' = <<>>
    /\ image_path' = None
    /\ posted' = <<>>
    /\ reply_ref' = None
    /\ image_blob' = None
    /\ idx' = 0
    /\ retval' = None
    /\ exitPath' = "none"
    /\ trace' = <<>>

Init ==
    /\ mode \in {"api", "auto"}
    /\ session = None /\ did = None /\ ctorAuth = "none"
    /\ issued = None /\ lastAuth = None
    /\ pc = "idle" /\ posts = <<>> /\ image_path = None /\ posted = <<>>
    /\ reply_ref = None /\ image_blob = None /\ idx = 0 /\ retval = None
    /\ exitPath = "none" /\ trace = <<>>
    /\ retRejected = Unset /\ retNothing = Unset
    /\ ncalls = 0
    /\ apc = "new" /\ schedule = None /\ threads = <<>> /\ tix = 0
    /\ image = None /\ results = <<>> /\ genCalls = 0 /\ generated = Unset
    /\ frames = <<>> /\ NoMime /\ NoGenerator /\ NoParse /\ NoSetup

\* ------------------------------------------------------- BlueskyPublisher
\* BlueskyPublisher.__init__, called directly: session and did start as None
\* and authenticate() runs; its return value is dropped.
NewPublisher ==
    /\ mode = "api" /\ apc = "new"
    /\ \E resp \in AuthResponses :
         LET a == Authenticate(None, None, resp)
         IN  /\ session' = a.session
             /\ did' = a.did
             /\ ctorAuth' = IF a.ok THEN "ok" ELSE "failed"
             /\ issued' = IssuedBy(issued, resp)
             /\ lastAuth' = [ok |-> a.ok, is200 |-> Is200(resp)]
    /\ apc' = "ready"
    /\ UNCHANGED <<mode, sideVars, frameVars, retRejected, retNothing, ncalls,
                   schedule, threads, tix, image, results, genCalls, generated>>

\* A later call of authenticate() on the same publisher.
Reauthenticate ==
    /\ mode = "api" /\ apc = "ready" /\ pc = "idle"
    /\ \E resp \in AuthResponses :
         LET a == Authenticate(session, did, resp)
         IN  /\ session' = a.session
             /\ did' = a.did
             /\ issued' = IssuedBy(issued, resp)
             /\ lastAuth' = [ok |-> a.ok, is200 |-> Is200(resp)]
    /\ UNCHANGED <<mode, sideVars, ctorAuth, frameVars, retRejected, retNothing, ncalls, autoVars>>

\* A direct call post_thread(posts, image_path).
ApiPostThread ==
    /\ mode = "api" /\ apc = "ready" /\ pc = "idle"
    /\ ncalls < MaxCalls
    /\ \E n \in 0..MaxPosts, p \in ImagePaths :
         /\ posts' = Texts(n)
         /\ image_path' = p
    /\ pc' = "entry"
    /\ ncalls' = ncalls + 1
    /\ UNCHANGED <<mode, sideVars, pubVars, posted, reply_ref, image_blob, idx, retval,
                   exitPath, trace, retRejected, retNothing, autoVars>>

\* The number of the running post_thread call: the direct call, or the slot
\* of run_all_today.
CallNo == IF mode = "api" THEN ncalls ELSE tix

\* post_thread, lines 141-153: the emptiness check, the initialisation and
\* the decision to upload.
PostThreadEntry ==
    /\ pc = "entry"
    /\ IF RejectsPosts(posts)
       THEN /\ retval' = None
            /\ exitPath' = "rejected"
            /\ retRejected' = None
            /\ UNCHANGED retNothing
            /\ pc' = "done"
            /\ idx' = idx
       ELSE /\ pc' = IF WantsUpload(image_path) THEN "upload" ELSE "loop"
            /\ idx' = 1
            /\ UNCHANGED <<retval, exitPath, retRejected, retNothing>>
    /\ posted' = <<>>
    /\ reply_ref' = None
    /\ image_blob' = None
    /\ UNCHANGED <<mode, sideVars, pubVars, posts, image_path, trace, ncalls, autoVars>>

\* post_thread, line 153: the call of upload_image.
PostThreadUpload ==
    /\ pc = "upload"
    /\ \E file \in FileStates, resp \in BlobResponses :
         LET out == UploadImage(session, file, resp)
         IN  IF "raised" \in DOMAIN out
             THEN /\ pc' = "raised"
                  /\ trace' = Append(trace, [ev |-> "upload", sent |-> out.sent, result |-> None,
                                              answered |-> Answered(out, resp),
                                              cause |-> UploadCause(session, file, resp)])
                  /\ UNCHANGED <<image_blob, session>>
             ELSE /\ pc' = AfterUpload(out.ret)
                  /\ image_blob' = out.ret
                  /\ trace' = Append(trace, [ev |-> "upload", sent |-> out.sent, result |-> out.ret,
                                              answered |-> Answered(out, resp),
                                              cause |-> UploadCause(session, file, resp)])
                  /\ session' = SessionAfterRequest(session, out.ret)
    /\ UNCHANGED <<mode, sideVars, did, ctorAuth, issued, lastAuth, posts, image_path, posted, reply_ref, idx,
                   retval, exitPath, retRejected, retNothing, ncalls, autoVars>>

\* post_thread, lines 155-185: one iteration of the loop up to the delay.
PostThreadPost ==
    /\ pc = "loop"
    /\ \E resp \in RecordResponses(CallNo, idx) :
         LET img == FirstPostImage(idx, image_blob)
             out == CreatePost(session, did, posts[idx], reply_ref, img, resp)
             ev  == [ev |-> "create", idx |-> idx, text |-> posts[idx],
                     reply_to |-> reply_ref, image_blob |-> img, sent |-> out.sent,
                     cause |-> Cause(CreatePostTry(session, did,
                                       BuildRecord(posts[idx], reply_ref, img), resp))]
         IN  IF "raised" \in DOMAIN out
             THEN /\ pc' = "raised"
                  /\ trace' = Append(trace, ev @@ [result |-> None])
                  /\ UNCHANGED <<posted, reply_ref, session>>
             ELSE /\ trace' = Append(trace, ev @@ [result |-> out.ret])
                  /\ session' = SessionAfterRequest(session, out.ret)
                  /\ pc' = AfterPost(out.ret, idx, Len(posts))
                  /\ IF out.ret # None
                     THEN /\ posted' = Append(posted, out.ret)
                          /\ reply_ref' = NextReplyRef(Append(posted, out.ret), out.ret)
                     ELSE UNCHANGED <<posted, reply_ref>>
    /\ UNCHANGED <<mode, sideVars, did, ctorAuth, issued, lastAuth, posts, image_path, image_blob,
                   idx, retval, exitPath, retRejected, retNothing, ncalls, autoVars>>

\* post_thread, lines 180-182 and the loop header: the delay, then the next post.
PostThreadSleep ==
    /\ pc = "sleep"
    /\ trace' = Append(trace, [ev |-> "sleep"])
    /\ idx' = idx + 1
    /\ pc' = "loop"
    /\ UNCHANGED <<mode, sideVars, pubVars, posts, image_path, posted, reply_ref,
                   image_blob, retval, exitPath, retRejected, retNothing, ncalls, autoVars>>

\* post_thread, lines 187-195: the value returned.
PostThreadReturn ==
    /\ pc = "return"
    /\ retval' = ReturnValue(posted, posts)
    /\ exitPath' = ReturnPath(posted, posts)
    /\ retNothing' = IF Len(posted) = 0 THEN ReturnValue(posted, posts) ELSE retNothing
    /\ UNCHANGED retRejected
    /\ pc' = "done"
    /\ UNCHANGED <<mode, sideVars, pubVars, posts, image_path, posted, reply_ref,
                   image_blob, idx, trace, ncalls, autoVars>>

\* The direct caller takes the returned value; the frame is gone.
ApiReturn ==
    /\ mode = "api" /\ pc = "done"
    /\ ClearFrame
    /\ UNCHANGED <<mode, sideVars, pubVars, retRejected, retNothing, ncalls, autoVars>>

\* ------------------------------------------------------ BlueskyAutomation
\* BlueskyAutomation.__init__: the schedule is loaded and the publisher is
\* constructed; whatever authenticate() returned, initialisation goes on.
NewAutomation ==
    /\ mode = "auto" /\ apc = "new"
    /\ schedule' \in Schedules
    /\ \E resp \in AuthResponses :
         LET a == Authenticate(None, None, resp)
         IN  /\ session' = a.session
             /\ did' = a.did
             /\ ctorAuth' = IF a.ok THEN "ok" ELSE "failed"
             /\ issued' = IssuedBy(issued, resp)
             /\ lastAuth' = [ok |-> a.ok, is200 |-> Is200(resp)]
    /\ apc' = "ready"
    /\ UNCHANGED <<mode, sideVars, frameVars, retRejected, retNothing, ncalls,
                   threads, tix, image, results, genCalls, generated>>

\* get_today_threads(): the list under day['posts'] of today's entry, [] when
\* no entry has today's date, KeyError when the entry has no 'posts' key.
GetTodayThreads(sched) ==
    IF sched = None THEN [ret |-> <<>>]
    ELSE IF sched.key # "posts" THEN [raised |-> "KeyError"]
    ELSE [ret |-> sched.list]

\* A run that gives up at the first slot whose post_thread returned nothing.
AfterThread_StopOnFailure(i, n) == IF i < n /\ ListTruthy(retval) THEN "gen" ELSE "exit"

\* Where run_all_today goes after the thread at position i of n.
AfterThread(i, n) == IF i < n THEN "gen" ELSE "exit"

\* A generate_and_post that takes every generator result as usable.
GenFailed_Never(g) == FALSE

\* generate_and_post, line 163: "if not posts".
GenFailed(g) == g = None \/ Len(g.list) = 0

\* post_thread's view of the argument: None and [] are both "not posts".
PostsOf(g) == IF g = None THEN <<>> ELSE g.list

\* run_all_today, lines 213-225: up to the first generate_and_post call.
RunAllToday ==
    /\ mode = "auto" /\ apc = "ready"
    /\ LET t == GetTodayThreads(schedule)
       IN  IF "raised" \in DOMAIN t
           THEN /\ apc' = "crashed"
                /\ UNCHANGED <<threads, tix>>
           ELSE IF Len(t.ret) = 0
                THEN /\ apc' = "exit"
                     /\ UNCHANGED <<threads, tix>>
                ELSE /\ apc' = "gen"
                     /\ threads' = t.ret
                     /\ tix' = 1
    /\ UNCHANGED <<mode, sideVars, pubVars, frameVars, retRejected, retNothing, ncalls, schedule,
                   image, results, genCalls, generated>>

\* generate_and_post, lines 150-176: generation, the image check and the
\* call of post_thread; a failed generation ends the slot.
GenerateAndPostGenerate ==
    /\ apc = "gen"
    /\ genCalls' = genCalls + 1
    /\ \E g \in GenResults, file \in {"missing", "ok"} :
         /\ generated' = g
         /\ IF GenFailed(g)
            THEN /\ results' = Append(results, [status |-> "failed",
                                                reason |-> "generation_failed"])
                 /\ apc' = AfterThread(tix, Len(threads))
                 /\ tix' = IF tix < Len(threads) THEN tix + 1 ELSE tix
                 /\ UNCHANGED <<image, frameVars>>
            ELSE LET img == IF PathTruthy(threads[tix].image) /\ file = "missing"
                            THEN None ELSE threads[tix].image
                 IN  /\ image' = img
                     /\ posts' = PostsOf(g)
                     /\ image_path' = img
                     /\ pc' = "entry"
                     /\ apc' = "posting"
                     /\ UNCHANGED <<results, tix, posted, reply_ref, image_blob, idx,
                                    retval, exitPath, trace>>
    /\ UNCHANGED <<mode, sideVars, pubVars, retRejected, retNothing, ncalls, schedule, threads>>

\* Faulty variant: only a thread whose posts were all created is a success.
SlotResult_CompleteOnly(result, ps) ==
    IF ListTruthy(result) /\ Len(result.list) = Len(ps)
    THEN [status |-> "success", posts |-> ps, nposts |-> Len(ps),
          created |-> Len(result.list), uri |-> result.list[1].uri]
    ELSE [status |-> "failed", reason |-> "posting_failed"]

\* generate_and_post, lines 178-192: the dict returned after post_thread gave
\* result for the posts ps; nposts and created are the two lengths.
SlotResult(result, ps) ==
    IF ListTruthy(result)
    THEN [status |-> "success", posts |-> ps, nposts |-> Len(ps),
          created |-> Len(result.list), uri |-> result.list[1].uri]
    ELSE [status |-> "failed", reason |-> "posting_failed"]

\* generate_and_post, lines 178-192, and run_all_today, lines 228-233: the
\* result of the slot, then the next slot.
GenerateAndPostResult ==
    /\ apc = "posting" /\ pc \in {"done", "raised"}
    /\ IF pc = "raised"
       THEN /\ apc' = "crashed"
            /\ UNCHANGED <<frameVars, results, tix, image>>
       ELSE /\ results' = Append(results, SlotResult(retval, posts))
            /\ apc' = AfterThread(tix, Len(threads))
            /\ tix' = IF tix < Len(threads) THEN tix + 1 ELSE tix
            /\ image' = None
            /\ ClearFrame
    /\ generated' = Unset
    /\ UNCHANGED <<mode, sideVars, pubVars, retRejected, retNothing, ncalls, schedule, threads, genCalls>>

\* ------------------------------------------------------------------- Next
Next ==
    \/ NewPublisher
    \/ Reauthenticate
    \/ ApiPostThread
    \/ PostThreadEntry
    \/ PostThreadUpload
    \/ PostThreadPost
    \/ PostThreadSleep
    \/ PostThreadReturn
    \/ ApiReturn
    \/ NewAutomation
    \/ RunAllToday
    \/ GenerateAndPostGenerate
    \/ GenerateAndPostResult

Spec == Init /\ [][Next]_vars

\* ------------------------------------- two post_thread calls on one publisher
\* post_thread keeps posted, reply_ref, image_blob and idx in locals, so each
\* call in progress has a frame of its own; session and did are the
\* publisher's and are shared.
Invocations == {1, 2}

\* The locals of a call that has just been entered.
NewFrame(ps, path) ==
    [pc |-> "entry", posts |-> ps, image_path |-> path, posted |-> <<>>,
     reply_ref |-> None, image_blob |-> None, idx |-> 0, retval |-> None,
     creates |-> <<>>]

\* Faulty variant: reply_ref kept in one place for all calls.
ReplyRefOf_Shared(fs, k) == fs[1].reply_ref

\* The reply_ref that call k passes to create_post (line 159): its own local.
ReplyRefOf(fs, k) == fs[k].reply_ref

ConcInit ==
    /\ mode = "conc"
    /\ \E resp \in AuthResponses :
         LET a == Authenticate(None, None, resp)
         IN  /\ session = a.session
             /\ did = a.did
             /\ ctorAuth = IF a.ok THEN "ok" ELSE "failed"
             /\ issued = IssuedBy(None, resp)
             /\ lastAuth = [ok |-> a.ok, is200 |-> Is200(resp)]
    /\ apc = "ready"
    /\ frames \in [Invocations -> {NewFrame(Texts(n), p) : n \in 0..MaxPosts, p \in ImagePaths}]
    /\ NoCall /\ NoMime /\ NoGenerator /\ NoParse /\ NoSetup

\* Call k takes a step that leaves f as its frame; nothing else changes.
FrameStep(k, f) ==
    /\ frames' = [frames EXCEPT ![k] = f]
    /\ UNCHANGED <<mode, did, ctorAuth, issued, lastAuth, frameVars, retRejected,
                   retNothing, ncalls, autoVars, mimeVars, genVars, parseVars,
                   setupVars>>

\* post_thread, lines 141-153, in call k.
ConcEntry(k) ==
    LET f == frames[k]
    IN  /\ f.pc = "entry"
        /\ FrameStep(k, IF RejectsPosts(f.posts)
                        THEN [f EXCEPT !.pc = "done", !.retval = None]
                        ELSE [f EXCEPT !.pc = IF WantsUpload(f.image_path) THEN "upload" ELSE "loop",
                                       !.idx = 1])
        /\ UNCHANGED session

\* post_thread, line 153, in call k.
ConcUpload(k) ==
    LET f == frames[k]
    IN  /\ f.pc = "upload"
        /\ \E file \in FileStates, resp \in BlobResponses :
             LET out == UploadImage(session, file, resp)
             IN  /\ FrameStep(k, [f EXCEPT !.pc = AfterUpload(out.ret), !.image_blob = out.ret])
                 /\ session' = SessionAfterRequest(session, out.ret)

\* post_thread, lines 155-185, in call k: the record the server creates for
\* post i of call k is its own.
ConcPost(k) ==
    LET f == frames[k]
    IN  /\ f.pc = "loop"
        /\ \E resp \in RecordResponses(k, f.idx) :
             LET img == FirstPostImage(f.idx, f.image_blob)
                 ref == ReplyRefOf(frames, k)
                 out == CreatePost(session, did, f.posts[f.idx], ref, img, resp)
                 log == Append(f.creates, [idx |-> f.idx, reply_to |-> ref, result |-> out.ret])
                 all == Append(f.posted, out.ret)
             IN  /\ FrameStep(k, IF out.ret # None
                                 THEN [f EXCEPT !.creates = log, !.posted = all,
                                                !.reply_ref = NextReplyRef(all, out.ret),
                                                !.pc = AfterPost(out.ret, f.idx, Len(f.posts))]
                                 ELSE [f EXCEPT !.creates = log,
                                                !.pc = AfterPost(out.ret, f.idx, Len(f.posts))])
                 /\ session' = SessionAfterRequest(session, out.ret)

\* post_thread, lines 180-182, in call k.
ConcSleep(k) ==
    LET f == frames[k]
    IN  /\ f.pc = "sleep"
        /\ FrameStep(k, [f EXCEPT !.pc = "loop", !.idx = f.idx + 1])
        /\ UNCHANGED session

\* post_thread, lines 187-195, in call k.
ConcReturn(k) ==
    LET f == frames[k]
    IN  /\ f.pc = "return"
        /\ FrameStep(k, [f EXCEPT !.pc = "done", !.retval = ReturnValue(f.posted, f.posts)])
        /\ UNCHANGED session

ConcNext ==
    \E k \in Invocations :
        \/ ConcEntry(k)
        \/ ConcUpload(k)
        \/ ConcPost(k)
        \/ ConcSleep(k)
        \/ ConcReturn(k)

ConcSpec == ConcInit /\ [][ConcNext]_vars

\* ------------------------------------------ upload_image: the Content-Type
\* Paths are sequences of one-character strings.
MaxStemLen == 3

\* What a path can start with: any mix of a letter, dots and slashes.
Stems == UNION {[1..n -> {"a", ".", "/"}] : n \in 0..MaxStemLen}

\* What a path can end with.
Endings ==
    {<<>>, <<"p", "n", "g">>,
     <<".", "j", "p", "g">>, <<".", "J", "P", "G">>,
     <<".", "j", "p", "e", "g">>, <<".", "J", "p", "e", "g">>,
     <<".", "p", "n", "g">>, <<".", "P", "N", "G">>, <<".", "P", "n", "g">>,
     <<".", "g", "i", "f">>, <<".", "G", "I", "F">>,
     <<".", "w", "e", "b", "p">>, <<".", "W", "E", "B", "P">>,
     <<".", "b", "m", "p">>, <<".", "p", "n", "g", "x">>, <<".", "p", "n">>}

\* The non-empty paths upload_image is given.
MimePaths == {s \o e : s \in Stems, e \in Endings} \ {<<>>}

\* str.lower() on the letters that occur.
LowerOf ==
    [J |-> "j", P |-> "p", G |-> "g", E |-> "e", N |-> "n", I |-> "i", F |-> "f",
     W |-> "w", B |-> "b"]

LowerChar(c) == IF c \in DOMAIN LowerOf THEN LowerOf[c] ELSE c

\* Faulty variant: the extension is looked up as written.
Lower_AsWritten(s) == s

Lower(s) == [i \in 1..Len(s) |-> LowerChar(s[i])]

\* str.rfind, counted from 1: the last position of ch in p, 0 when absent.
RFind(p, ch) ==
    IF \E i \in 1..Len(p) : p[i] = ch
    THEN CHOOSE i \in 1..Len(p) : p[i] = ch /\ \A j \in (i + 1)..Len(p) : p[j] # ch
    ELSE 0

\* os.path.splitext(p)[1]: the part from the last dot of the file name on,
\* unless only dots precede it in the file name.
SplitExt(p) ==
    LET sep == RFind(p, "/")
        dot == RFind(p, ".")
    IN  IF dot > sep /\ \E i \in (sep + 1)..(dot - 1) : p[i] # "."
        THEN SubSeq(p, dot, Len(p))
        ELSE <<>>

\* upload_image, lines 217-223: the table of known extensions.
MimeTable ==
    (<<".", "j", "p", "g">> :> "image/jpeg")
    @@ (<<".", "j", "p", "e", "g">> :> "image/jpeg")
    @@ (<<".", "p", "n", "g">> :> "image/png")
    @@ (<<".", "g", "i", "f">> :> "image/gif")
    @@ (<<".", "w", "e", "b", "p">> :> "image/webp")

\* upload_image, lines 216-225: mimetypes.get(ext, 'image/jpeg').
MimeType(path) ==
    LET ext == Lower(SplitExt(path))
    IN  IF ext \in DOMAIN MimeTable THEN MimeTable[ext] ELSE "image/jpeg"

MimeInit ==
    /\ mode = "mime"
    /\ upath \in MimePaths
    /\ ctype = ""
    /\ NoPublisher /\ NoCall /\ NoGenerator /\ NoParse /\ NoSetup
    /\ frames = <<>>

\* upload_image, lines 230-233: the Content-Type header of the request.
UploadImageHeaders ==
    /\ mode = "mime" /\ ctype = ""
    /\ ctype' = MimeType(upath)
    /\ UNCHANGED <<mode, pubVars, frameVars, retRejected, retNothing, ncalls, autoVars,
                   frames, upath, genVars, parseVars, setupVars>>

MimeNext == UploadImageHeaders

MimeSpec == MimeInit /\ [][MimeNext]_vars

\* --------------------------------------------------- BlueskyThreadGenerator
MaxRetry == 3
MaxGenCalls == 3

ProviderNames == {"groq", "gemini", "other"}

\* list(providers.keys()): the keys of a dict, each once, in the dict's order.
ProviderLists ==
    {l \in UNION {[1..n -> ProviderNames] : n \in 0..Cardinality(ProviderNames)} :
        \A i, j \in 1..Len(l) : l[i] = l[j] => i = j}

\* What an attempt with a provider gets: None from a failed call or from a
\* provider other than groq and gemini, or a text that _parse_thread cuts
\* into nposts valid posts.
Contents(provider) ==
    IF provider \in {"groq", "gemini"}
    THEN {None} \cup {[nposts |-> n] : n \in 0..MaxPosts}
    ELSE {None}

\* generate_thread, lines 186-188: the attempt gives the thread to return.
Usable(content) == content # None /\ content.nposts >= MinThreadPosts

\* Faulty variant: the index runs past the end of the list.
NextIndex_NoWrap(cur, count) == cur + 1

\* generate_thread, line 192.
NextIndex(cur, count) == (cur + 1) % count

\* Faulty variant: the loop goes on as long as there are providers.
MoreAttempts_ListOnly == attempts < Len(provider_list)

\* generate_thread, line 176: the loop condition.
MoreAttempts == attempts < retry_count /\ attempts < Len(provider_list)

\* BlueskyThreadGenerator.__init__.
GenInit ==
    /\ mode = "gen"
    /\ provider_list \in ProviderLists
    /\ current_index = 0
    /\ gpc = "idle" /\ attempts = 0 /\ retry_count = 0 /\ gret = Unset
    /\ failedAttempts = 0 /\ gcalls = 0 /\ tried = <<>>
    /\ NoPublisher /\ NoCall /\ NoMime /\ NoParse /\ NoSetup
    /\ frames = <<>>

\* A call generate_thread(topic, retry_count), lines 159-175.
GenerateThread ==
    /\ mode = "gen" /\ gpc = "idle"
    /\ gcalls < MaxGenCalls
    /\ gcalls' = gcalls + 1
    /\ retry_count' \in 0..MaxRetry
    /\ attempts' = 0
    /\ gret' = Unset
    /\ tried' = <<>>
    /\ gpc' = "loop"
    /\ UNCHANGED <<mode, pubVars, frameVars, retRejected, retNothing, ncalls, autoVars,
                   frames, mimeVars, parseVars, setupVars, provider_list, current_index, failedAttempts>>

\* generate_thread, lines 176-194: one pass of the loop.
GenerateThreadAttempt ==
    /\ gpc = "loop" /\ MoreAttempts
    /\ tried' = Append(tried, provider_list[current_index + 1])
    /\ \E content \in Contents(provider_list[current_index + 1]) :
         IF Usable(content)
         THEN /\ gret' = RetList(Texts(content.nposts))
              /\ gpc' = "idle"
              /\ UNCHANGED <<current_index, attempts, failedAttempts>>
         ELSE /\ current_index' = NextIndex(current_index, Len(provider_list))
              /\ attempts' = attempts + 1
              /\ failedAttempts' = failedAttempts + 1
              /\ UNCHANGED <<gret, gpc>>
    /\ UNCHANGED <<mode, pubVars, frameVars, retRejected, retNothing, ncalls, autoVars,
                   frames, mimeVars, parseVars, setupVars, provider_list, retry_count, gcalls>>

\* generate_thread, lines 196-197: the loop is over without a thread.
GenerateThreadGiveUp ==
    /\ gpc = "loop" /\ ~MoreAttempts
    /\ gret' = None
    /\ gpc' = "idle"
    /\ UNCHANGED <<mode, pubVars, frameVars, retRejected, retNothing, ncalls, autoVars,
                   frames, mimeVars, parseVars, setupVars, provider_list, current_index, attempts, retry_count,
                   failedAttempts, gcalls, tried>>

GenNext ==
    \/ GenerateThread
    \/ GenerateThreadAttempt
    \/ GenerateThreadGiveUp

GenSpec == GenInit /\ [][GenNext]_vars

\* A call that has been entered runs on: its requests time out after 30
\* seconds and its delays are finite.
GenFairSpec ==
    GenSpec /\ WF_vars(GenerateThreadAttempt) /\ WF_vars(GenerateThreadGiveUp)

\* ----------------------------------------------- _parse_thread and the hand-over
MaxSegs == 4

\* _parse_thread, line 226: the longest post that is kept.
MaxPostChars == 300

\* A segment of the provider's text after strip(): how many characters it
\* has and whether it starts and ends with a double quote.
Segments ==
    {[chars |-> n, quoted |-> FALSE] : n \in {0, 1, MaxPostChars, MaxPostChars + 1}}
    \cup {[chars |-> n, quoted |-> TRUE] : n \in {1, 2, 3, MaxPostChars + 2, MaxPostChars + 3}}

\* What a provider call can return: None, or a text that splits into some
\* segments.
ProviderTexts == {None} \cup {[segs |-> t] : t \in UNION {[1..n -> Segments] : n \in 0..MaxSegs}}

\* _parse_thread, lines 222-224: post[1:-1] for a quoted post.
StripQuotes(seg) ==
    IF seg.quoted
    THEN IF seg.chars >= 2 THEN seg.chars - 2 ELSE 0
    ELSE seg.chars

\* Faulty variant: only empty posts are dropped.
Keep_NonEmpty(n) == n > 0

\* _parse_thread, line 226: "if post and len(post) <= 300".
Keep(n) == n > 0 /\ n <= MaxPostChars

\* _parse_thread, lines 218-229: the kept posts in order, each with the place
\* of its segment and its length.
ParseThread(segs) ==
    SelectSeq([i \in 1..Len(segs) |-> [from |-> i, chars |-> StripQuotes(segs[i])]],
              LAMBDA post : Keep(post.chars))

\* generate_thread, lines 186-190: the list the attempt returns, None when
\* the attempt fails.
AttemptReturns(text) ==
    IF text = None THEN None
    ELSE LET ps == ParseThread(text.segs)
         IN  IF Len(ps) >= MinThreadPosts THEN RetList(ps) ELSE None

ParseInit ==
    /\ mode = "parse"
    /\ gcontent \in ProviderTexts
    /\ gposts = Unset /\ handed = Unset
    /\ NoPublisher /\ NoCall /\ NoMime /\ NoGenerator /\ NoSetup
    /\ frames = <<>>

\* generate_thread, lines 186-190, for the text of one attempt; after a
\* failed attempt the call returns None or what a later attempt gives.
GenerateThreadParse ==
    /\ mode = "parse" /\ gposts = Unset
    /\ gposts' = AttemptReturns(gcontent)
    /\ UNCHANGED <<mode, pubVars, frameVars, retRejected, retNothing, ncalls, autoVars,
                   frames, mimeVars, genVars, setupVars, gcontent, handed>>

\* generate_and_post, lines 161-175: the posts go to post_thread as returned.
GenerateAndPostHandOver ==
    /\ mode = "parse" /\ gposts # Unset /\ handed = Unset
    /\ ~GenFailed(gposts)
    /\ handed' = RetList(PostsOf(gposts))
    /\ UNCHANGED <<mode, pubVars, frameVars, retRejected, retNothing, ncalls, autoVars,
                   frames, mimeVars, genVars, setupVars, gcontent, gposts>>

ParseNext ==
    \/ GenerateThreadParse
    \/ GenerateAndPostHandOver

ParseSpec == ParseInit /\ [][ParseNext]_vars

\* ------------------------------- setup_bluesky.py and the file it leaves
\* Dates are counted in days; both programs format them with "%Y-%m-%d".
MaxDays == 8
MaxStart == 2

\* create_schedule, lines 12-41: the rows of the topics table.
TopicRows == 7

\* create_schedule, line 46.
Times == <<"09:00", "14:00", "19:00">>

\* create_schedule, lines 48-64: the entry of one day.
ScheduleDay(start, day) ==
    [day |-> day,
     date |-> start + (day - 1),
     threads |-> [i \in 1..Len(Times) |->
                    [time |-> Times[i],
                     topic |-> <<((day - 1) % TopicRows) + 1, i>>,
                     image |-> None]]]

\* create_schedule(start_date, days).
CreateSchedule(start, days) == [d \in 1..days |-> ScheduleDay(start, d)]

\* json.dump of a thread and of a schedule: None is written as null, the
\* keys and the other values as they are.
JsonThread(t) == [t EXCEPT !.image = IF t.image = None THEN "null" ELSE t.image]

JsonDump(sched) ==
    [d \in 1..Len(sched) |->
        [sched[d] EXCEPT !.threads = [i \in 1..Len(sched[d].threads) |->
                                         JsonThread(sched[d].threads[i])]]]

\* json.load: null is read as None.
PyThread(t) == [t EXCEPT !.image = IF t.image = "null" THEN None ELSE t.image]

JsonLoad(text) ==
    [d \in 1..Len(text) |->
        [text[d] EXCEPT !.threads = [i \in 1..Len(text[d].threads) |->
                                        PyThread(text[d].threads[i])]]]

\* load_schedule, lines 53-57: the file holds a list, which is returned.
LoadSchedule(text) == JsonLoad(text)

\* The entry of the loaded schedule whose date is today's, as the key its
\* threads are stored under and the threads; None when no date matches.
TodayEntry(sched, day) ==
    IF \E d \in 1..Len(sched) : sched[d].date = day
    THEN LET e == sched[CHOOSE d \in 1..Len(sched) :
                          sched[d].date = day /\ \A c \in 1..(d - 1) : sched[c].date # day]
         IN  IF "posts" \in DOMAIN e THEN [key |-> "posts", list |-> e.posts]
             ELSE [key |-> "threads", list |-> e.threads]
    ELSE None

\* preview_schedule, lines 287-293: the threads listed for each day, or the
\* exception raised at the first day.
PreviewSchedule(sched) ==
    IF \E d \in 1..Len(sched) : "posts" \notin DOMAIN sched[d]
    THEN [raised |-> "KeyError"]
    ELSE [listed |-> [d \in 1..Len(sched) |-> sched[d].posts]]

SetupInit ==
    /\ mode = "setup"
    /\ sargs \in {[start |-> st, days |-> n] : st \in 1..MaxStart, n \in 1..MaxDays}
    /\ today \in 0..(MaxStart + MaxDays)
    /\ sfile = Unset /\ sloaded = Unset /\ spreview = Unset /\ stoday = Unset
    /\ NoPublisher /\ NoCall /\ NoMime /\ NoGenerator /\ NoParse
    /\ frames = <<>>

\* setup_bluesky.py, lines 121 and 133: create_schedule, then
\* save_for_github_secret writes BLUESKY_SCHEDULE.json.
SetupSave ==
    /\ mode = "setup" /\ sfile = Unset
    /\ sfile' = [text |-> JsonDump(CreateSchedule(sargs.start, sargs.days))]
    /\ UNCHANGED <<mode, pubVars, frameVars, retRejected, retNothing, ncalls, autoVars,
                   frames, mimeVars, genVars, parseVars, sargs, today, sloaded, spreview, stoday>>

\* BlueskyAutomation.__init__, line 24: load_schedule.
SetupLoad ==
    /\ sfile # Unset /\ sloaded = Unset
    /\ sloaded' = [list |-> LoadSchedule(sfile.text)]
    /\ UNCHANGED <<mode, pubVars, frameVars, retRejected, retNothing, ncalls, autoVars,
                   frames, mimeVars, genVars, parseVars, sargs, today, sfile, spreview, stoday>>

\* "python bluesky_automation.py preview".
SetupPreview ==
    /\ sloaded # Unset /\ spreview = Unset
    /\ spreview' = PreviewSchedule(sloaded.list)
    /\ UNCHANGED <<mode, pubVars, frameVars, retRejected, retNothing, ncalls, autoVars,
                   frames, mimeVars, genVars, parseVars, sargs, today, sfile, sloaded, stoday>>

\* get_today_threads() on the loaded schedule.
SetupToday ==
    /\ sloaded # Unset /\ stoday = Unset
    /\ stoday' = GetTodayThreads(TodayEntry(sloaded.list, today))
    /\ UNCHANGED <<mode, pubVars, frameVars, retRejected, retNothing, ncalls, autoVars,
                   frames, mimeVars, genVars, parseVars, sargs, today, sfile, sloaded, spreview>>

SetupNext ==
    \/ SetupSave
    \/ SetupLoad
    \/ SetupPreview
    \/ SetupToday

SetupSpec == SetupInit /\ [][SetupNext]_vars

\* ============================================================ properties
IsCreate(e) == e.ev = "create"

IsUpload(e) == e.ev = "upload"

\* The create_post calls and the upload_image calls of the running (or just
\* finished) post_thread call, in order.
Creates == SelectSeq(trace, IsCreate)

Uploads == SelectSeq(trace, IsUpload)

Running == pc \in {"upload", "loop", "sleep", "return", "done", "raised"}

\* C1: in every post_thread execution the first create_post call carries no
\* reply link; the call for post i >= 1 carries root = the {uri, cid} returned
\* for post 0 and parent = the {uri, cid} returned for post i-1; the root held
\* for the next post is always post 0.
C1_ReplyChain ==
    /\ \A i \in 1..Len(Creates) :
         /\ i = 1 => Creates[i].reply_to = None
         /\ i > 1 => /\ Creates[i].reply_to # None
                     /\ Creates[i].reply_to.root = Creates[1].result
                     /\ Creates[i].reply_to.parent = Creates[i-1].result
         /\ Creates[i].sent # None => Creates[i].sent.record.reply = Creates[i].reply_to
    /\ reply_ref # None => Len(posted) > 0 /\ reply_ref.root = posted[1]
    /\ reply_ref = None => Len(posted) = 0

C1_Witness ==
    /\ pc = "done" /\ exitPath = "partial"
    /\ Len(Creates) = 3 /\ Len(posted) = 2
    /\ Creates[3].sent # None

\* C2: if create_post fails at index k, the accumulated result holds exactly
\* the references of posts 0..k-1 in order, no create_post call follows, and
\* nothing is deleted: the only requests are uploads and record creations.
C2_PrefixStop ==
    /\ \A i \in 1..Len(Creates) :
         Creates[i].result = None =>
            /\ i = Len(Creates)
            /\ Len(posted) = i - 1
            /\ pc \in {"return", "done"}
    /\ Len(posted) <= Len(Creates)
    /\ \A i \in 1..Len(posted) : posted[i] = Creates[i].result
    /\ \A i \in 1..Len(trace) :
         (trace[i].ev # "sleep" /\ trace[i].sent # None) =>
            trace[i].sent.op \in {"uploadBlob", "createRecord"}
    /\ (pc = "done" /\ exitPath = "partial" /\ Len(posted) > 0) => retval = RetList(posted)

C2_Witness ==
    /\ pc = "done" /\ Len(posts) = 3
    /\ Len(Creates) = 2 /\ Creates[2].result = None
    /\ Len(posted) = 1

\* C3: no create_post call for a post after the first receives an image blob
\* and no record after the first carries an embed, whatever the upload did.
C3_ImageOnlyFirst ==
    \A i \in 1..Len(Creates) :
        Creates[i].idx > 1 =>
            /\ Creates[i].image_blob = None
            /\ Creates[i].sent # None => Creates[i].sent.record.embed = None

C3_Witness ==
    /\ image_blob # None
    /\ Len(Creates) >= 2
    /\ Creates[1].sent # None /\ Creates[1].sent.record.embed # None
    /\ Creates[2].sent # None

\* C4: when upload_image fails (missing or unreadable file, status other than
\* 200, exception), post_thread goes on to the loop: post 0 is attempted, it
\* carries no blob and no embed, and no call ends without attempting it.
C4_UploadNonFatal ==
    (Len(Uploads) > 0 /\ Uploads[1].result = None) =>
        /\ pc # "raised"
        /\ image_blob = None
        /\ Len(trace) = 1 => pc = "loop" /\ idx = 1
        /\ pc \in {"return", "done"} => Len(Creates) >= 1
        /\ Len(Creates) >= 1 =>
             /\ Creates[1].idx = 1
             /\ Creates[1].image_blob = None
             /\ Creates[1].sent # None => Creates[1].sent.record.embed = None

C4_Witness ==
    /\ pc = "done" /\ exitPath = "complete"
    /\ Len(Uploads) = 1 /\ Uploads[1].result = None /\ Uploads[1].cause = "status"
    /\ Len(posts) = MaxPosts /\ retval = RetList(posted) /\ Len(posted) = MaxPosts

\* C5: post_thread called with no texts returns at once and makes no call at
\* all: no upload, even with an image path, and no record creation.
C5_EmptyRejected ==
    (Running /\ Len(posts) = 0) =>
        /\ pc = "done"
        /\ exitPath = "rejected"
        /\ retval = None
        /\ trace = <<>>

C5_Witness ==
    /\ pc = "done" /\ Len(posts) = 0 /\ PathTruthy(image_path)
    /\ exitPath = "rejected"

\* C6: create_post calls are made in ascending index order, each index at
\* most once, and the call for index i+1 only after the call for index i has
\* returned a reference.
C6_Sequential ==
    /\ \A i \in 1..Len(Creates) : Creates[i].idx = i
    /\ \A i \in 1..(Len(Creates) - 1) :
         /\ Creates[i].result # None
         /\ Creates[i].result = posted[i]
    /\ Len(Creates) <= Len(posts)
    /\ pc = "loop" => idx = Len(Creates) + 1 /\ Len(posted) = Len(Creates)

C6_Witness ==
    /\ pc = "done" /\ Len(Creates) = 3
    /\ Creates[3].result = None /\ Creates[3].cause = "RequestException"

\* C7: a post_thread call that passes the emptiness check uploads at most
\* once, only when an image path was given and before any create_post call,
\* then posts in order, and ends on exactly one of the two final paths:
\* complete when all n posts were created, partial otherwise.
C7_PhaseOrder ==
    /\ Len(Uploads) <= 1
    /\ Len(Uploads) = 1 => trace[1].ev = "upload" /\ PathTruthy(image_path)
    /\ pc = "upload" => trace = <<>>
    /\ \A i \in 1..Len(Creates) : Creates[i].idx = i
    /\ (Running /\ Len(posts) >= 1 /\ pc # "done") => exitPath = "none"
    /\ (pc = "done" /\ Len(posts) >= 1) =>
         /\ exitPath \in {"complete", "partial"}
         /\ exitPath = "complete" <=> (Len(posted) = Len(posts) /\ Len(Creates) = Len(posts))
         /\ exitPath = "partial" <=> Len(posted) < Len(posts)

C7_Witness ==
    /\ pc = "done" /\ exitPath = "complete"
    /\ Len(Uploads) = 1 /\ Len(Creates) = 3

\* The part of C8 about the count and the classes: the returned value tells
\* how many posts were created (None standing for none) and tells full
\* success, partial and total failure apart.
C8_CountAndClasses ==
    pc = "done" =>
        /\ retval = None => Len(posted) = 0
        /\ retval # None => retval.list = posted /\ Len(posted) > 0
        /\ exitPath = "complete" <=> (retval # None /\ Len(retval.list) = Len(posts))
        /\ (exitPath = "partial" /\ Len(posted) > 0)
             <=> (retval # None /\ Len(retval.list) < Len(posts))
        /\ (exitPath = "partial" /\ Len(posted) = 0) => retval = None

\* C8, as the claim states it: the count and the classes, and the value
\* returned for a total failure differs from the one returned for an empty
\* list of posts.
C8_Distinguishable ==
    /\ C8_CountAndClasses
    /\ (retRejected # Unset /\ retNothing # Unset) => retRejected # retNothing

\* C8, amended: the returned value tells how many posts were created and tells
\* full success, partial and total failure apart; a total failure and an empty
\* list of posts both return None.
C8_ReturnValue ==
    /\ C8_CountAndClasses
    /\ retRejected \in {Unset, None}
    /\ retNothing \in {Unset, None}

C8_Witness ==
    /\ pc = "done" /\ exitPath = "partial" /\ Len(posted) = 0
    /\ retRejected = None /\ retNothing = None

\* One step of a running post_thread call.
PostThreadStep ==
    \/ PostThreadEntry
    \/ PostThreadUpload
    \/ PostThreadPost
    \/ PostThreadSleep
    \/ PostThreadReturn

\* C9: no exception leaves post_thread: a transport exception, a status other
\* than 200, a 200 without uri, cid or blob, and a missing session each give
\* None from upload_image or create_post, and a running call can always take
\* its next step up to the return of a value.
C9_NoEscape ==
    /\ pc # "raised"
    /\ \A i \in 1..Len(trace) :
         trace[i].ev # "sleep" => (trace[i].cause # "none" <=> trace[i].result = None)
    /\ pc \in {"entry", "upload", "loop", "sleep", "return"} => ENABLED PostThreadStep
    /\ pc = "done" => exitPath # "none" /\ (retval = None \/ "list" \in DOMAIN retval)

C9_Witness ==
    /\ pc = "done" /\ session = None
    /\ Len(trace) = 2
    /\ trace[1].ev = "upload" /\ trace[1].cause = "TypeError"
    /\ trace[2].ev = "create" /\ trace[2].cause = "TypeError"
    /\ retval = None

\* C10: when the authentication made in the constructor fails and no session
\* is held, nothing further is carried out: no thread generation, no upload or
\* record-creation request, and no thread reported as posted.
C10_AuthFailureHalts ==
    (ctorAuth = "failed" /\ session = None) =>
        /\ genCalls = 0
        /\ \A i \in 1..Len(trace) : trace[i].ev # "sleep" => trace[i].sent = None
        /\ \A i \in 1..Len(results) : results[i].status # "success"

\* An authenticate() call: the one of a constructor or a later one.
AuthStep == NewPublisher \/ Reauthenticate \/ NewAutomation

\* The requests that went out during the running post_thread call.
SentAt(i) == trace[i].ev # "sleep" /\ trace[i].sent # None

\* C11: every upload and record-creation request carries the access token of
\* the session as it is when the request is built, which is the token of the
\* latest createSession answer with status 200, whatever authenticate calls
\* came before the post_thread call.
C11_CurrentToken ==
    \A i \in 1..Len(trace) :
        SentAt(i) =>
            /\ session # None /\ "accessJwt" \in DOMAIN session
            /\ trace[i].sent.token = session.accessJwt
            /\ issued # None /\ "accessJwt" \in DOMAIN issued
            /\ trace[i].sent.token = issued.accessJwt

C11_Witness ==
    /\ ncalls = 2 /\ ctorAuth = "failed"
    /\ lastAuth # None /\ lastAuth.ok
    /\ Len(trace) >= 2 /\ SentAt(1) /\ SentAt(2)
    /\ trace[1].ev = "upload" /\ trace[1].sent.token = "jwt2"
    /\ trace[2].ev = "create" /\ trace[2].sent.token = "jwt2"

\* C12: authenticate returns True and replaces the stored session and did
\* exactly when createSession answered 200; on any other status or on a
\* transport exception it returns False and leaves both as they were.
C12_AuthIff200 ==
    [][AuthStep =>
        /\ lastAuth'.ok <=> lastAuth'.is200
        /\ lastAuth'.is200 =>
             /\ session' = issued'
             /\ "did" \in DOMAIN issued' /\ did' = [did |-> issued'.did]
        /\ ~lastAuth'.is200 => session' = session /\ did' = did]_vars

\* The slot of run_all_today that is being generated or published.
SlotRunning == mode = "auto" /\ apc \in {"gen", "posting"}

\* The records a create event refers to were created by call c.
OwnRefs(e, c) ==
    IF e.idx = 1 THEN e.reply_to = None
    ELSE /\ e.reply_to # None
         /\ e.reply_to.root.uri = <<"at", c, 1>>
         /\ e.reply_to.parent.uri = <<"at", c, e.idx - 1>>

\* C13: in run_all_today a slot that failed or was partial leaves the later
\* slots untouched: the run goes on to every later slot, each post_thread call
\* starts with nothing posted, no reply reference and no blob, the replies of
\* a slot refer only to records of that slot, an image blob only to the upload
\* of that slot, and the session and did stay as they were.
C13_FailureIsolated ==
    /\ [](mode = "auto" =>
            /\ SlotRunning => tix = Len(results) + 1 /\ tix <= Len(threads)
            /\ apc = "exit" => Len(results) = Len(threads)
            /\ apc = "gen" => posted = <<>> /\ reply_ref = None /\ image_blob = None /\ trace = <<>>
            /\ pc = "loop" /\ idx = 1 => posted = <<>> /\ reply_ref = None
            /\ \A i \in 1..Len(posted) : posted[i].uri = <<"at", tix, i>>
            /\ \A i \in 1..Len(trace) :
                 IsCreate(trace[i]) =>
                    /\ OwnRefs(trace[i], tix)
                    /\ trace[i].image_blob # None =>
                          IsUpload(trace[1]) /\ trace[1].result = trace[i].image_blob)
    /\ [][mode = "auto" /\ apc # "new" => session' = session /\ did' = did]_vars

\* The second slot is published in full, with replies, after the first failed.
C13_Witness ==
    /\ mode = "auto" /\ apc = "posting" /\ tix = 2
    /\ results[1] = [status |-> "failed", reason |-> "posting_failed"]
    /\ pc = "done" /\ ListTruthy(retval) /\ Len(retval.list) = Len(posts)
    /\ session # None

\* C14: a slot whose generation returned None or an empty list is skipped:
\* post_thread is not entered, nothing is uploaded or created, the slot's
\* result is failed with reason generation_failed, and the run goes on with
\* the next slot if there is one.
C14_GenerationFailedSkips ==
    [][GenerateAndPostGenerate
         /\ (generated' = None \/ (generated' # None /\ Len(generated'.list) = 0))
       => /\ results' = Append(results, [status |-> "failed", reason |-> "generation_failed"])
          /\ pc = "idle" /\ trace = <<>>
          /\ UNCHANGED frameVars
          /\ apc' = IF tix < Len(threads) THEN "gen" ELSE "exit"
          /\ tix < Len(threads) => tix' = tix + 1]_vars

\* A slot is published after the slot before it was skipped.
C14_Witness ==
    /\ mode = "auto" /\ apc = "posting" /\ tix = 2
    /\ results = <<[status |-> "failed", reason |-> "generation_failed"]>>
    /\ Creates # <<>>
\* C16: no step of post_thread, and so no call of upload_image or create_post
\* made by it, whether it succeeds or fails, changes the stored session or did.
C16_SessionReadOnly ==
    [][PostThreadStep => session' = session /\ did' = did]_vars

\* An authenticated publisher has had an upload fail and a post fail.
C16_Witness ==
    /\ session # None /\ did # None /\ session = issued
    /\ Len(trace) = 4
    /\ IsUpload(trace[1]) /\ trace[1].sent # None /\ trace[1].result = None
    /\ IsCreate(trace[2]) /\ trace[2].result # None
    /\ IsCreate(trace[4]) /\ trace[4].sent # None /\ trace[4].result = None
\* C17: within a post_thread call every create_post call but the first comes
\* right after a delay, every delay comes right after a create_post call that
\* returned a reference for a post that is not the last, and so no delay
\* follows the last post or a failed post.
C17_DelayBetweenPosts ==
    /\ \A i \in 1..Len(trace) :
         /\ IsCreate(trace[i]) /\ trace[i].idx > 1 => i > 1 /\ trace[i - 1].ev = "sleep"
         /\ IsCreate(trace[i]) /\ trace[i].idx = 1 => i = 1 \/ IsUpload(trace[i - 1])
         /\ trace[i].ev = "sleep" =>
              /\ i > 1 /\ IsCreate(trace[i - 1])
              /\ trace[i - 1].result # None
              /\ trace[i - 1].idx < Len(posts)
    /\ pc = "sleep" =>
         /\ idx < Len(posts)
         /\ IsCreate(trace[Len(trace)]) /\ trace[Len(trace)].result # None
    /\ pc \in {"return", "done"} /\ trace # <<>> => IsCreate(trace[Len(trace)])

\* Two posts were created with a delay between them and the third failed.
C17_Witness ==
    /\ pc = "done" /\ Len(posts) = 3 /\ Len(trace) = 5
    /\ IsCreate(trace[1]) /\ trace[2].ev = "sleep"
    /\ IsCreate(trace[3]) /\ trace[4].ev = "sleep"
    /\ IsCreate(trace[5]) /\ trace[5].result = None
\* C18: when the upload request was answered 200 with a blob, that blob, as
\* the server sent it, is what post_thread holds and hands to the create_post
\* call of the first post, whose record embeds it as the only image with an
\* empty alt text; the first post is attempted, and no other create_post call
\* receives a blob or sends an embed.
C18_BlobPassedOnce ==
    (/\ Uploads # <<>>
     /\ Uploads[1].answered # None
     /\ "blob" \in DOMAIN Uploads[1].answered) =>
        LET b == Uploads[1].answered.blob
        IN  /\ Len(Uploads) = 1
            /\ Uploads[1].result = b
            /\ image_blob = b
            /\ pc \in {"sleep", "return", "done"} => Creates # <<>>
            /\ \A i \in 1..Len(Creates) :
                 IF Creates[i].idx = 1
                 THEN /\ i = 1
                      /\ Creates[i].image_blob = b
                      /\ Creates[i].sent # None =>
                           Creates[i].sent.record.embed = [images |-> <<[alt |-> "", image |-> b]>>]
                 ELSE /\ Creates[i].image_blob = None
                      /\ Creates[i].sent # None => Creates[i].sent.record.embed = None

\* A thread of three posts was created after its image was uploaded.
C18_Witness ==
    /\ pc = "done" /\ Uploads # <<>> /\ Uploads[1].answered # None
    /\ "blob" \in DOMAIN Uploads[1].answered
    /\ Len(Creates) = 3 /\ Creates[3].result # None
    /\ Creates[1].sent.record.embed # None
\* The records of call k: what the server created for its posts.
OwnRecord(k, i) == [uri |-> <<"at", k, i>>, cid |-> <<"cid", k, i>>]

\* C15: when two post_thread calls on one publisher interleave their steps,
\* each call's list of created posts and each value it returns hold only
\* records of that call, in order, and every create_post call after the first
\* replies with the call's own first record as root and its own previous
\* record as parent.
C15_NoInterference ==
    \A k \in Invocations :
        LET f == frames[k]
        IN  /\ \A i \in 1..Len(f.posted) : f.posted[i] = OwnRecord(k, i)
            /\ f.pc = "done" /\ f.retval # None => f.retval = RetList(f.posted)
            /\ \A j \in 1..Len(f.creates) :
                 LET c == f.creates[j]
                 IN  /\ c.idx = j
                     /\ IF j = 1 THEN c.reply_to = None
                        ELSE c.reply_to = [root |-> OwnRecord(k, 1), parent |-> OwnRecord(k, j - 1)]

\* Both calls are under way at once, each with replies already made.
C15_Witness ==
    /\ mode = "conc"
    /\ frames[1].pc = "loop" /\ frames[1].idx = 3 /\ Len(frames[1].creates) = 2
    /\ frames[2].pc = "sleep" /\ frames[2].idx = 2 /\ Len(frames[2].creates) = 2
    /\ frames[2].reply_ref # None
\* Two characters that are the same letter in either case.
SameLetter(a, b) ==
    \/ a = b
    \/ \E u \in {<<"J", "j">>, <<"P", "p">>, <<"G", "g">>, <<"E", "e">>, <<"N", "n">>,
                 <<"I", "i">>, <<"F", "f">>, <<"W", "w">>, <<"B", "b">>} :
         {a, b} = {u[1], u[2]}

\* The file name of p ends with the extension e in some mix of cases, after
\* a name that is not made of dots alone.
HasExtension(p, e) ==
    LET cut == Len(p) - Len(e)
    IN  /\ cut >= 1
        /\ \A i \in 1..Len(e) : SameLetter(p[cut + i], e[i])
        /\ \E i \in 1..cut : p[i] # "." /\ p[i] # "/" /\ \A j \in i..cut : p[j] # "/"

\* C19: the Content-Type of the upload request is image/jpeg for a file name
\* ending in .jpg or .jpeg, image/png for .png, image/gif for .gif and
\* image/webp for .webp, in any mix of cases, and image/jpeg for every other
\* path, whatever precedes the extension; a file name with only dots before
\* its last dot has no extension.
C19_ContentType ==
    ctype # "" =>
        ctype = IF HasExtension(upath, <<".", "p", "n", "g">>) THEN "image/png"
                ELSE IF HasExtension(upath, <<".", "g", "i", "f">>) THEN "image/gif"
                ELSE IF HasExtension(upath, <<".", "w", "e", "b", "p">>) THEN "image/webp"
                ELSE "image/jpeg"

\* An upper-case extension after a directory name with a dot in it.
C19_Witness ==
    /\ upath = <<".", "/", "a", ".", "P", "N", "G">>
    /\ ctype = "image/png"
\* C20: the provider index moves only in a failed attempt of generate_thread,
\* and then to (index + 1) modulo the number of providers; an attempt that
\* returns a thread, the start of a call and the end of a call leave it; so
\* over any sequence of calls it equals the number of failed attempts modulo
\* the number of providers and lies in 0 .. count - 1 (with no provider no
\* attempt is made and it stays 0).
C20_Rotation ==
    /\ [](mode = "gen" =>
            IF Len(provider_list) = 0
            THEN current_index = 0 /\ failedAttempts = 0
            ELSE /\ current_index \in 0..(Len(provider_list) - 1)
                 /\ current_index = failedAttempts % Len(provider_list))
    /\ [][IF GenerateThreadAttempt /\ gpc' = "loop"
          THEN current_index' = (current_index + 1) % Len(provider_list)
          ELSE current_index' = current_index]_vars

\* With two providers the index is back where it was after two failed
\* attempts, has moved on in a later call, and the call then got a thread.
C20_Witness ==
    /\ mode = "gen" /\ Len(provider_list) = 2
    /\ failedAttempts = 3 /\ current_index = 1
    /\ gcalls = 2 /\ gpc = "idle" /\ gret # None /\ gret # Unset
\* The smaller of two numbers.
Min(a, b) == IF a < b THEN a ELSE b

\* C21: a generate_thread call makes at most min(retry_count, number of
\* providers) attempts, each with a provider it has not used before, returns
\* None when that many attempts have failed, makes no attempt when the
\* provider list is empty, and always comes to its return.
C21_BoundedAttempts ==
    /\ [](mode = "gen" =>
            /\ Len(tried) <= Min(retry_count, Len(provider_list))
            /\ \A i, j \in 1..Len(tried) : tried[i] = tried[j] => i = j
            /\ Len(provider_list) = 0 => tried = <<>>
            /\ gpc = "idle" /\ gret = None
                 => Len(tried) = Min(retry_count, Len(provider_list)) /\ attempts = Len(tried)
            /\ gpc = "idle" /\ gret # None /\ gret # Unset => attempts = Len(tried) - 1)
    /\ (gpc = "loop") ~> (gpc = "idle" /\ gret # Unset)

\* Two of three providers were tried, both failed, and the call gave None.
C21_Witness ==
    /\ mode = "gen" /\ Len(provider_list) = 3 /\ retry_count = 2
    /\ gpc = "idle" /\ gret = None
    /\ Len(tried) = 2 /\ tried[1] # tried[2]
\* The length of segment i of the text once its surrounding quotes are off.
Unquoted(i) ==
    LET seg == gcontent.segs[i]
    IN  IF ~seg.quoted THEN seg.chars
        ELSE IF seg.chars = 1 THEN 0 ELSE seg.chars - 2

\* The segments of the text that are posts of 1 to 300 characters.
ValidSegments == {i \in 1..Len(gcontent.segs) : Unquoted(i) >= 1 /\ Unquoted(i) <= 300}

\* C22: an attempt of generate_thread gives None or a list of at least 3
\* posts, each of 1 to 300 characters; the list holds exactly the segments of
\* that size, in their order and at their full length (the others are
\* dropped, none is cut); and generate_and_post passes that list to
\* post_thread as it is.
C22_PostLengths ==
    /\ gposts # Unset /\ gposts # None =>
         /\ gcontent # None
         /\ Len(gposts.list) >= 3
         /\ Len(gposts.list) = Cardinality(ValidSegments)
         /\ \A j \in 1..Len(gposts.list) :
              LET post == gposts.list[j]
              IN  /\ post.chars >= 1 /\ post.chars <= 300
                  /\ post.from \in ValidSegments
                  /\ post.chars = Unquoted(post.from)
                  /\ j > 1 => gposts.list[j - 1].from < post.from
    /\ gposts = None => gcontent = None \/ Cardinality(ValidSegments) < 3
    /\ handed # Unset =>
         /\ handed = gposts
         /\ \A j \in 1..Len(handed.list) : handed.list[j].chars <= 300

\* Of four segments the over-long one was dropped and the quoted one of 302
\* characters was kept as 300; the three posts went to post_thread.
C22_Witness ==
    /\ mode = "parse" /\ handed # Unset
    /\ gcontent.segs = <<[chars |-> 1, quoted |-> FALSE],
                         [chars |-> 301, quoted |-> FALSE],
                         [chars |-> 302, quoted |-> TRUE],
                         [chars |-> 300, quoted |-> FALSE]>>
    /\ Len(handed.list) = 3 /\ handed.list[2] = [from |-> 3, chars |-> 300]
\* The create_post calls of the running post_thread call that gave a record.
Created == SelectSeq(Creates, LAMBDA e : e.result # None)

\* C23: when post_thread has returned in generate_and_post, the slot's result
\* is 'success' if at least one post was created, the thread being partial
\* or not, and then it carries the uri of the first record and all the
\* generated texts; it is 'failed' with reason posting_failed if none was.
C23_SuccessIffPosted ==
    [][GenerateAndPostResult =>
         LET r == results'[Len(results')]
         IN  /\ Len(results') = Len(results) + 1
             /\ r.status = "success" <=> Len(Created) >= 1
             /\ r.status = "failed" <=> Len(Created) = 0
             /\ r.status = "success" =>
                  /\ r.uri = Created[1].result.uri
                  /\ r.posts = generated.list
             /\ r.status = "failed" => r.reason = "posting_failed"]_vars

\* A slot of which only the first post was created counts as a success.
C23_Witness ==
    /\ mode = "auto" /\ Len(results) = 1
    /\ results[1].status = "success"
    /\ results[1].created = 1 /\ results[1].nposts = 3
    /\ results[1].uri = <<"at", 1, 1>>
\* The days create_schedule was asked for hold today.
TodayScheduled == today \in sargs.start..(sargs.start + sargs.days - 1)

\* C24: on the file written by setup_bluesky.py, preview_schedule lists the
\* three threads of every day and get_today_threads returns the three
\* threads of the day dated today, neither raising an exception.
C24_ScheduleConsumable ==
    /\ spreview # Unset =>
         /\ "raised" \notin DOMAIN spreview
         /\ Len(spreview.listed) = sargs.days
         /\ \A d \in 1..sargs.days : Len(spreview.listed[d]) = 3
    /\ stoday # Unset /\ TodayScheduled =>
         /\ "raised" \notin DOMAIN stoday
         /\ stoday.ret = CreateSchedule(sargs.start, sargs.days)[today - sargs.start + 1].threads
====
